---- MODULE Spec2Model ----
(***************************************************************************)
(* Model of the langsmith-cli query layer: `runs list` / `runs search`     *)
(* (src/langsmith_cli/commands/runs.py), the shared helpers of             *)
(* src/langsmith_cli/utils.py, the project and dataset commands            *)
(* (commands/projects.py, commands/datasets.py) and the entry point        *)
(* main.py, through which an exception leaves the process.                 *)
(*                                                                         *)
(* Representation.  A Python string is a sequence of symbols.  A symbol is *)
(* one character ("a", "5", "*"), except that the fixed pieces of FQL text *)
(* the code writes as literals ("and(", ", ", "search(\"" ...) are one     *)
(* symbol each.  An optional value is <<>> for None and <<v>> for v.       *)
(* A datetime is a record [min, aware]: minutes since an epoch and whether *)
(* it carries a UTC offset.                                                *)
(***************************************************************************)
EXTENDS Integers, Sequences, FiniteSets, TLC

VARIABLES
    pc,               \* "start": the command line is parsed; "done": the process has exited
    args,             \* the parsed command line (command, global --json, options)
    now,              \* the clock reading of this invocation, in minutes
    backend_runs,     \* the runs the backend holds for the query, in its order
    backend_projects, \* the projects the backend holds, in its order
    backend_error,    \* the exception the backend raises on the command's client call, None if none
    list_runs_calls,  \* the keyword arguments of each client.list_runs call made
    dataset_calls,    \* the calls `datasets push` made on the client, in order
    output_runs,      \* the runs handed to the renderer
    format_type,      \* the active output format, None until it is determined
    stdout,           \* what was written to stdout, one entry per write
    exit_code,        \* None while running
    error,            \* the exception that ended the command, None if none
    watch             \* runs watch: the fetches of the current round, the table Live
                      \* shows, the numbers of renders and sleeps, the user's interrupt

vars == <<pc, args, now, backend_runs, backend_projects, backend_error,
          list_runs_calls, dataset_calls, output_runs, format_type, stdout, exit_code, error,
          watch>>

----------------------------------------------------------------------------
(* Bounds of the model *)

MaxLimit == 2

MaxFetched == 3

MaxLines == 2

\* the refreshes of runs watch that are followed
MaxRefreshes == 2

----------------------------------------------------------------------------
(* Optional values and Python truthiness *)

None == <<>>

Some(v) == <<v>>

\* `if x:` for an optional string: not None and not the empty string
Truthy(o) == o # <<>> /\ Len(o[1]) > 0

----------------------------------------------------------------------------
(* String helpers *)

RECURSIVE JoinWith(_, _)
\* sep.join(parts)
JoinWith(parts, sep) ==
    IF parts = <<>> THEN <<>>
    ELSE IF Len(parts) = 1 THEN parts[1]
    ELSE parts[1] \o sep \o JoinWith(Tail(parts), sep)

RECURSIVE Replace(_, _, _)
\* s.replace(c, by) for a one-symbol c
Replace(s, c, by) ==
    IF s = <<>> THEN <<>>
    ELSE (IF Head(s) = c THEN by ELSE <<Head(s)>>) \o Replace(Tail(s), c, by)

Take(s, n) == SubSeq(s, 1, IF n < Len(s) THEN n ELSE Len(s))

Drop(s, n) == SubSeq(s, n + 1, Len(s))

StartsWith(s, p) == Len(p) <= Len(s) /\ SubSeq(s, 1, Len(p)) = p

EndsWith(s, p) == Len(p) <= Len(s) /\ SubSeq(s, Len(s) - Len(p) + 1, Len(s)) = p

\* p occurs in s as a contiguous substring
Contains(s, p) ==
    \E i \in 1..(Len(s) - Len(p) + 1) : SubSeq(s, i, i + Len(p) - 1) = p

RECURSIVE LStrip(_, _)
\* s.lstrip(c)
LStrip(s, c) ==
    IF s # <<>> /\ Head(s) = c THEN LStrip(Tail(s), c) ELSE s

Digits == {"0", "1", "2", "3", "4", "5", "6", "7", "8", "9"}

DigitVal(c) ==
    CASE c = "0" -> 0 [] c = "1" -> 1 [] c = "2" -> 2 [] c = "3" -> 3
      [] c = "4" -> 4 [] c = "5" -> 5 [] c = "6" -> 6 [] c = "7" -> 7
      [] c = "8" -> 8 [] c = "9" -> 9

DigitChar(d) == <<"0", "1", "2", "3", "4", "5", "6", "7", "8", "9">>[d + 1]

AllDigits(s) == Len(s) > 0 /\ \A i \in 1..Len(s) : s[i] \in Digits

RECURSIVE ParseInt(_)
\* int(s) for a string of decimal digits
ParseInt(s) ==
    IF Len(s) = 1 THEN DigitVal(s[1])
    ELSE 10 * ParseInt(SubSeq(s, 1, Len(s) - 1)) + DigitVal(s[Len(s)])

RECURSIVE IntStr(_)
\* str(n) for n >= 0
IntStr(n) ==
    IF n < 10 THEN <<DigitChar(n)>> ELSE IntStr(n \div 10) \o <<DigitChar(n % 10)>>

----------------------------------------------------------------------------
(* Python `re`, restricted to the syntax the modelled inputs use: literal   *)
(* characters, ".", a postfix "*", "^" as first symbol, "$" as last symbol. *)
(* "[" and "(" never get their closing symbol in the modelled inputs, so a  *)
(* pattern holding one of them does not compile.                            *)

ReCompileFails(p) ==
    \/ \E i \in 1..Len(p) : p[i] \in {"[", "("}
    \/ p # <<>> /\ p[1] = "*"
    \/ Len(p) >= 2 /\ p[1] = "^" /\ p[2] = "*"

RECURSIVE MatchHere(_, _)
RECURSIVE MatchStar(_, _, _)
\* does regex re match a prefix of text
MatchHere(re, text) ==
    IF re = <<>> THEN TRUE
    ELSE IF Len(re) >= 2 /\ re[2] = "*" THEN MatchStar(re[1], Drop(re, 2), text)
    ELSE IF re = <<"$">> THEN text = <<>>
    ELSE IF text # <<>> /\ (re[1] = "." \/ re[1] = text[1])
         THEN MatchHere(Tail(re), Tail(text))
    ELSE FALSE

\* c* followed by re, against text
MatchStar(c, re, text) ==
    \/ MatchHere(re, text)
    \/ text # <<>> /\ (c = "." \/ c = text[1]) /\ MatchStar(c, re, Tail(text))

\* compiled_pattern.search(text) is not None
ReSearch(p, text) ==
    IF p # <<>> /\ p[1] = "^" THEN MatchHere(Tail(p), text)
    ELSE \E i \in 0..Len(text) : MatchHere(p, Drop(text, i))

----------------------------------------------------------------------------
(* Durations and times *)

DurationUnits == {<<"s">>, <<"m", "s">>, <<"m">>, <<"h">>, <<"d">>}

\* re.match(r"^\d+(\.\d+)?(s|ms|m|h|d)$", duration_str)
DurationMatches(s) ==
    \E u \in DurationUnits :
        /\ EndsWith(s, u)
        /\ LET num == SubSeq(s, 1, Len(s) - Len(u))
           IN  \/ AllDigits(num)
               \/ \E k \in 2..(Len(num) - 1) :
                      /\ num[k] = "."
                      /\ AllDigits(SubSeq(num, 1, k - 1))
                      /\ AllDigits(SubSeq(num, k + 1, Len(num)))

BadParameter(msg) == [kind |-> "BadParameter", message |-> msg]

\* parse_duration_to_seconds: the error it raises, None when it returns
parse_duration_error(duration_str) ==
    IF DurationMatches(duration_str) THEN None
    ELSE Some(BadParameter(<<"Invalid duration format: ">> \o duration_str
                           \o <<". Use format like '2s', '500ms', '1.5s', '5m', '2h', '7d'">>))

\* parse_duration_to_seconds: the value it returns (the input, unchanged)
parse_duration_to_seconds(duration_str) == duration_str

\* re.match(r"^(\d+)(m|h|d)$", time_str)
RelativeTimeMatches(time_str) ==
    /\ Len(time_str) >= 2
    /\ time_str[Len(time_str)] \in {"m", "h", "d"}
    /\ AllDigits(SubSeq(time_str, 1, Len(time_str) - 1))

parse_relative_time_error(time_str) ==
    IF RelativeTimeMatches(time_str) THEN None
    ELSE Some(BadParameter(<<"Invalid time format: ">> \o time_str
                           \o <<". Use format like '30m', '24h', '7d'">>))

MinutesPerUnit(unit) ==
    CASE unit = "m" -> 1 [] unit = "h" -> 60 [] unit = "d" -> 1440

\* parse_relative_time: datetime.now(utc) - delta
parse_relative_time(time_str, t) ==
    LET value == ParseInt(SubSeq(time_str, 1, Len(time_str) - 1))
        unit  == time_str[Len(time_str)]
    IN  [min |-> t - value * MinutesPerUnit(unit), aware |-> TRUE]

\* datetime.fromisoformat(text) succeeds
IsoParses(text) ==
    /\ Len(text) >= 2
    /\ text[1] = "T"
    /\ \/ AllDigits(Tail(text))
       \/ /\ text[Len(text)] = "+00:00"
          /\ AllDigits(SubSeq(text, 2, Len(text) - 1))

\* datetime.fromisoformat(text)
fromisoformat(text) ==
    IF text[Len(text)] = "+00:00"
    THEN [min |-> ParseInt(SubSeq(text, 2, Len(text) - 1)), aware |-> TRUE]
    ELSE [min |-> ParseInt(Tail(text)), aware |-> FALSE]

\* dt.isoformat()
isoformat(dt) ==
    <<"T">> \o IntStr(dt.min) \o (IF dt.aware THEN <<"+00:00">> ELSE <<>>)

\* --since: the error list_runs raises for it, None when it parses
since_error(since) ==
    IF IsoParses(Replace(since, "Z", <<"+00:00">>)) \/ RelativeTimeMatches(since)
    THEN None
    ELSE Some(BadParameter(<<"Invalid --since format: ">> \o since
              \o <<". Use ISO format (2024-01-14T10:00:00Z) or relative time (24h, 7d)">>))

\* --since: the timestamp list_runs derives, ISO parse first
since_timestamp(since, t) ==
    IF IsoParses(Replace(since, "Z", <<"+00:00">>))
    THEN fromisoformat(Replace(since, "Z", <<"+00:00">>))
    ELSE parse_relative_time(since, t)

----------------------------------------------------------------------------
(* runs list: the FQL filter builder (runs.py 152-239).  a is the record of *)
(* the parameters click hands to list_runs, t the clock reading.            *)

\* error_filter: status/failed/succeeded -> the `error` query parameter
error_filter(a) ==
    IF a.status = Some("error") \/ a.failed THEN Some(TRUE)
    ELSE IF a.status = Some("success") \/ a.succeeded THEN Some(FALSE)
    ELSE None

HasTag(tg) == <<"has(tags, \"">> \o tg \o <<"\")">>

Search(term) == <<"search(\"">> \o term \o <<"\")">>

GtLatency(d) == <<"gt(latency, \"">> \o d \o <<"\")">>

LtLatency(d) == <<"lt(latency, \"">> \o d \o <<"\")">>

GtStartTime(dt) == <<"gt(start_time, \"">> \o isoformat(dt) \o <<"\")">>

\* search_term = name_pattern.replace("*", "")
search_term(name_pattern) == Replace(name_pattern, "*", <<>>)

\* today_start: now(utc) with hour, minute, second cleared
today_start(t) == [min |-> t - (t % 1440), aware |-> TRUE]

\* one_hour_ago
one_hour_ago(t) == [min |-> t - 60, aware |-> TRUE]

FqlRaw(a) == IF Truthy(a.filter_) THEN <<a.filter_[1]>> ELSE <<>>

FqlTags(a) == [i \in 1..Len(a.tag) |-> HasTag(a.tag[i])]

FqlName(a) ==
    IF Truthy(a.name_pattern) /\ search_term(a.name_pattern[1]) # <<>>
    THEN <<Search(search_term(a.name_pattern[1]))>> ELSE <<>>

FqlModel(a) == IF Truthy(a.model) THEN <<Search(a.model[1])>> ELSE <<>>

FqlSlow(a) == IF a.slow THEN <<GtLatency(<<"5", "s">>)>> ELSE <<>>

FqlRecent(a, t) == IF a.recent THEN <<GtStartTime(one_hour_ago(t))>> ELSE <<>>

FqlToday(a, t) == IF a.today THEN <<GtStartTime(today_start(t))>> ELSE <<>>

FqlMinLatency(a) ==
    IF Truthy(a.min_latency)
    THEN <<GtLatency(parse_duration_to_seconds(a.min_latency[1]))>> ELSE <<>>

\* FqlMaxLatency that writes the greater-than predicate
FqlMaxLatency_greater_than(a) ==
    IF Truthy(a.max_latency)
    THEN <<GtLatency(parse_duration_to_seconds(a.max_latency[1]))>> ELSE <<>>

FqlMaxLatency(a) ==
    IF Truthy(a.max_latency)
    THEN <<LtLatency(parse_duration_to_seconds(a.max_latency[1]))>> ELSE <<>>

FqlSince(a, t) ==
    IF Truthy(a.since) THEN <<GtStartTime(since_timestamp(a.since[1], t))>> ELSE <<>>

FqlLast(a, t) ==
    IF Truthy(a.last) THEN <<GtStartTime(parse_relative_time(a.last[1], t))>> ELSE <<>>

\* fql_filters with the tag predicates appended before the raw --filter
fql_filters_tags_first(a, t) ==
    FqlTags(a) \o FqlRaw(a) \o FqlName(a) \o FqlModel(a)
    \o FqlSlow(a) \o FqlRecent(a, t) \o FqlToday(a, t)
    \o FqlMinLatency(a) \o FqlMaxLatency(a)
    \o FqlSince(a, t) \o FqlLast(a, t)

\* fql_filters, as it stands when every parse has succeeded
fql_filters(a, t) ==
    FqlRaw(a) \o FqlTags(a) \o FqlName(a) \o FqlModel(a)
    \o FqlSlow(a) \o FqlRecent(a, t) \o FqlToday(a, t)
    \o FqlMinLatency(a) \o FqlMaxLatency(a)
    \o FqlSince(a, t) \o FqlLast(a, t)

\* The first exception the builder raises, in statement order; None if none
builder_error(a) ==
    IF Truthy(a.min_latency) /\ parse_duration_error(a.min_latency[1]) # None
    THEN parse_duration_error(a.min_latency[1])
    ELSE IF Truthy(a.max_latency) /\ parse_duration_error(a.max_latency[1]) # None
    THEN parse_duration_error(a.max_latency[1])
    ELSE IF Truthy(a.since) /\ since_error(a.since[1]) # None
    THEN since_error(a.since[1])
    ELSE IF Truthy(a.last) /\ parse_relative_time_error(a.last[1]) # None
    THEN parse_relative_time_error(a.last[1])
    ELSE None

\* combined_filter that wraps a single predicate in and(...) too
combined_filter_always_wraps(filters) ==
    IF filters = <<>> THEN None
    ELSE Some(<<"and(">> \o JoinWith(filters, <<", ">>) \o <<")">>)

\* combined_filter
combined_filter(filters) ==
    IF filters = <<>> THEN None
    ELSE IF Len(filters) = 1 THEN Some(filters[1])
    ELSE Some(<<"and(">> \o JoinWith(filters, <<", ">>) \o <<")">>)

needs_client_filtering(a) == Truthy(a.name_regex)

api_limit(a) == IF needs_client_filtering(a) THEN None ELSE Some(a.limit)

\* the keyword arguments of the client.list_runs call
list_runs_kwargs(a, t) ==
    [project_name |-> a.project,
     limit |-> api_limit(a),
     error |-> error_filter(a),
     filter |-> combined_filter(fql_filters(a, t)),
     trace_id |-> a.trace_id,
     run_type |-> a.run_type,
     is_root |-> a.is_root,
     trace_filter |-> a.trace_filter,
     tree_filter |-> a.tree_filter,
     order_by |-> a.order_by,
     reference_example_id |-> a.reference_example_id]

----------------------------------------------------------------------------
(* Run records and the shared helpers of utils.py *)

\* The runs the backend may hold.  name, latency and start_time are optional.
RunUniverse ==
    { [id |-> 1, name |-> Some(<<"a", "b">>), status |-> Some(<<"success">>),
       latency |-> Some(3), start_time |-> Some(10)],
      [id |-> 2, name |-> Some(<<"A", "a">>), status |-> Some(<<"error">>),
       latency |-> None, start_time |-> Some(30)],
      [id |-> 3, name |-> Some(<<"b", "a">>), status |-> Some(<<"success">>),
       latency |-> Some(1), start_time |-> Some(20)],
      [id |-> 4, name |-> None, status |-> None,
       latency |-> Some(2), start_time |-> None] }

\* code point order of the symbols that occur in names and statuses
Ord(c) ==
    CASE c = "A" -> 65 [] c = "a" -> 97 [] c = "b" -> 98
      [] c = "error" -> 200 [] c = "success" -> 201 [] OTHER -> 300

\* c.lower()
LowerChar(c) == IF c = "A" THEN "a" ELSE c

\* s.lower()
Lower(s) == [i \in 1..Len(s) |-> LowerChar(s[i])]

RECURSIVE StrLess(_, _)
\* s < t for Python strings
StrLess(s, t) ==
    IF t = <<>> THEN FALSE
    ELSE IF s = <<>> THEN TRUE
    ELSE IF Ord(Head(s)) # Ord(Head(t)) THEN Ord(Head(s)) < Ord(Head(t))
    ELSE StrLess(Tail(s), Tail(t))

\* x or "" for an optional string
OrEmpty(o) == IF Truthy(o) THEN o[1] ELSE <<>>

\* the fields of sort_key_map in list_runs
SortFields == {"name", "status", "latency", "start_time"}

\* sort_key_map[field](x) < sort_key_map[field](y), for the maps of
\* list_runs and of list_projects (run_count)
KeyLess(field, x, y) ==
    CASE field = "name" -> StrLess(Lower(OrEmpty(x.name)), Lower(OrEmpty(y.name)))
      [] field = "status" -> StrLess(OrEmpty(x.status), OrEmpty(y.status))
      [] field = "latency" ->
            (IF x.latency # None THEN x.latency[1] ELSE 0)
              < (IF y.latency # None THEN y.latency[1] ELSE 0)
      [] field = "start_time" -> x.start_time[1] < y.start_time[1]
      [] field = "run_count" ->
            (IF x.run_count # None THEN x.run_count[1] ELSE 0)
              < (IF y.run_count # None THEN y.run_count[1] ELSE 0)

\* comparing the keys raises (None against a datetime, or None against None)
KeyCompareRaises(field, items) ==
    /\ field = "start_time"
    /\ Len(items) >= 2
    /\ \E i \in 1..Len(items) : items[i].start_time = None

RECURSIVE InsertStable(_, _, _, _)
\* put x into the sorted sequence, after every element it does not precede
InsertStable(x, sorted, field, reverse) ==
    IF sorted = <<>> THEN <<x>>
    ELSE IF (IF reverse THEN KeyLess(field, Head(sorted), x)
                        ELSE KeyLess(field, x, Head(sorted)))
         THEN <<x>> \o sorted
    ELSE <<Head(sorted)>> \o InsertStable(x, Tail(sorted), field, reverse)

RECURSIVE StableSorted(_, _, _)
\* sorted(items, key=..., reverse=reverse): stable in both directions
StableSorted(items, field, reverse) ==
    IF items = <<>> THEN <<>>
    ELSE InsertStable(items[Len(items)],
                      StableSorted(SubSeq(items, 1, Len(items) - 1), field, reverse),
                      field, reverse)

sort_field_of(sort_by) == LStrip(sort_by, "-")

\* sort_items: does it print a warning
sort_items_warns(items, sort_by) ==
    /\ sort_by # <<>>
    /\ \/ sort_field_of(sort_by) = <<>>
       \/ Len(sort_field_of(sort_by)) > 1
       \/ sort_field_of(sort_by)[1] \notin SortFields
       \/ KeyCompareRaises(sort_field_of(sort_by)[1], items)

\* sort_items that sorts by name when it cannot sort by the field asked for
sort_items_falls_back_to_name(items, sort_by) ==
    IF sort_by = <<>> THEN items
    ELSE IF sort_items_warns(items, sort_by)
    THEN StableSorted(items, "name", sort_by[1] = "-")
    ELSE StableSorted(items, sort_field_of(sort_by)[1], sort_by[1] = "-")

\* sort_items: the list it returns
sort_items(items, sort_by) ==
    IF sort_by = <<>> \/ sort_items_warns(items, sort_by) THEN items
    ELSE StableSorted(items, sort_field_of(sort_by)[1], sort_by[1] = "-")

\* apply_regex_filter: the error it raises, None when it returns
apply_regex_filter_error(regex_pattern) ==
    IF Truthy(regex_pattern) /\ ReCompileFails(regex_pattern[1])
    THEN Some(BadParameter(<<"Invalid regex pattern: ">> \o regex_pattern[1]
                           \o <<". Error: ">>))
    ELSE None

\* apply_regex_filter(items, regex_pattern, lambda r: r.name)
apply_regex_filter(items, regex_pattern) ==
    IF ~Truthy(regex_pattern) THEN items
    ELSE SelectSeq(items, LAMBDA r : Truthy(r.name) /\ ReSearch(regex_pattern[1], r.name[1]))

\* apply_wildcard_filter(items, wildcard_pattern, lambda r: r.name)
apply_wildcard_filter(items, wildcard_pattern) ==
    IF ~Truthy(wildcard_pattern) THEN items
    ELSE LET w == wildcard_pattern[1]
             p0 == Replace(Replace(w, "*", <<".", "*">>), "?", <<".">>)
             p1 == IF w[1] # "*" THEN <<"^">> \o p0 ELSE p0
             p2 == IF w[Len(w)] # "*" THEN p1 \o <<"$">> ELSE p1
         IN  SelectSeq(items, LAMBDA r : Truthy(r.name) /\ ReSearch(p2, r.name[1]))

\* apply_client_side_limit(items, limit, has_client_filters)
apply_client_side_limit(items, limit, has_client_filters) ==
    IF has_client_filters THEN Take(items, limit) ELSE items

\* determine_output_format in which the global --json flag wins
determine_output_format_json_wins(output_format, json_flag) ==
    IF json_flag THEN <<"json">>
    ELSE IF Truthy(output_format) THEN output_format[1] ELSE <<"table">>

\* determine_output_format(output_format, json_flag)
determine_output_format(output_format, json_flag) ==
    IF Truthy(output_format) THEN output_format[1]
    ELSE IF json_flag THEN <<"json">> ELSE <<"table">>

\* output_formatted_data: what it writes to stdout
output_formatted_data(data, fmt) ==
    IF data = <<>> /\ fmt = <<"csv">> THEN <<>>
    ELSE <<[kind |-> fmt[1], rows |-> data]>>

\* client.list_runs(**kwargs): the backend returns its runs, at most `limit`
client_list_runs(kwargs, held) ==
    IF kwargs.limit = None THEN held ELSE Take(held, kwargs.limit[1])

----------------------------------------------------------------------------
(* runs list and runs search *)

\* everything list_runs does after the filter is built (runs.py 241-324)
list_runs_pipeline(a, t, held) ==
    LET kwargs  == list_runs_kwargs(a, t)
        fetched == client_list_runs(kwargs, held)
        rerr    == apply_regex_filter_error(a.name_regex)
        matched == apply_regex_filter(fetched, a.name_regex)
        sorting == Truthy(a.sort_by) /\ ~a.json
        sorted  == IF sorting THEN sort_items(matched, a.sort_by[1]) ELSE matched
        warned  == IF sorting /\ sort_items_warns(matched, a.sort_by[1])
                   THEN <<[kind |-> "warning", rows |-> <<>>]>> ELSE <<>>
        runs    == apply_client_side_limit(sorted, a.limit, needs_client_filtering(a))
        fmt     == determine_output_format(a.output_format, a.json)
    IN  IF rerr # None
        THEN [calls |-> <<kwargs>>, output_runs |-> <<>>, format_type |-> None,
              stdout |-> <<>>, exit_code |-> 2, error |-> rerr]
        ELSE [calls |-> <<kwargs>>, output_runs |-> runs, format_type |-> Some(fmt),
              stdout |-> warned \o
                  (IF fmt # <<"table">> THEN output_formatted_data(runs, fmt)
                   ELSE IF runs = <<>> THEN <<[kind |-> "no_runs", rows |-> <<>>]>>
                   ELSE <<[kind |-> "table", rows |-> runs]>>),
              exit_code |-> 0, error |-> None]

\* list_runs as a whole: a BadParameter raised while the filter is built
\* ends the command (click exits with status 2) before anything else runs
list_runs_result(a, t, held) ==
    IF builder_error(a) # None
    THEN [calls |-> <<>>, output_runs |-> <<>>, format_type |-> None,
          stdout |-> <<>>, exit_code |-> 2, error |-> builder_error(a)]
    ELSE list_runs_pipeline(a, t, held)

\* click defaults of the runs list options
DefaultListArgs ==
    [cmd |-> "list", json |-> FALSE,
     project |-> <<"default">>, limit |-> 1, status |-> None, filter_ |-> None,
     trace_id |-> None, run_type |-> None, is_root |-> None,
     trace_filter |-> None, tree_filter |-> None,
     order_by |-> <<"-", "start_time">>, reference_example_id |-> None,
     tag |-> <<>>, name_pattern |-> None, name_regex |-> None, model |-> None,
     failed |-> FALSE, succeeded |-> FALSE,
     slow |-> FALSE, recent |-> FALSE, today |-> FALSE,
     min_latency |-> None, max_latency |-> None, since |-> None, last |-> None,
     sort_by |-> None, output_format |-> None]

\* search_filter with the output term before the input term
search_filter_output_first(s) ==
    LET filters == <<Search(s.query)>>
                   \o (IF Truthy(s.output_contains)
                       THEN <<Search(s.output_contains[1])>> ELSE <<>>)
                   \o (IF Truthy(s.input_contains)
                       THEN <<Search(s.input_contains[1])>> ELSE <<>>)
    IN  IF Len(filters) = 1 THEN filters[1]
        ELSE <<"and(">> \o JoinWith(filters, <<", ">>) \o <<")">>

\* search_runs: the derived filter
search_filter(s) ==
    LET filters == <<Search(s.query)>>
                   \o (IF Truthy(s.input_contains)
                       THEN <<Search(s.input_contains[1])>> ELSE <<>>)
                   \o (IF Truthy(s.output_contains)
                       THEN <<Search(s.output_contains[1])>> ELSE <<>>)
    IN  IF Len(filters) = 1 THEN filters[1]
        ELSE <<"and(">> \o JoinWith(filters, <<", ">>) \o <<")">>

\* search_runs: the parameters it hands to list_runs through ctx.invoke
search_invoke_params(s) ==
    [DefaultListArgs EXCEPT
        !.json = s.json, !.project = s.project, !.limit = s.limit,
        !.filter_ = Some(search_filter(s)), !.output_format = s.output_format,
        !.order_by = <<"-", "start_time">>]

----------------------------------------------------------------------------
(* Exceptions, and the way one leaves the process through main.py *)

\* an exception object: its class name and its text
Raised(class, msg) == [kind |-> class, message |-> msg]

\* cli(): main.py wraps the commands in no handler.  click reports a
\* BadParameter or UsageError as a usage error (status 2); any other
\* exception leaves cli() and ends the process with status 1.
uncaught_exit_code(e) == IF e.kind \in {"BadParameter", "UsageError"} THEN 2 ELSE 1

\* an exception that no command catches: nothing is written to stdout
propagate(e, calls) ==
    [calls |-> calls, output_runs |-> <<>>, format_type |-> None,
     stdout |-> <<>>, exit_code |-> uncaught_exit_code(e), error |-> Some(e)]

\* list_runs against a backend that may raise on client.list_runs: the call
\* is made once the filter is built, and its exception is not caught
list_runs_outcome(a, t, held, fault) ==
    IF builder_error(a) = None /\ fault # None
    THEN propagate(fault[1], <<list_runs_kwargs(a, t)>>)
    ELSE list_runs_result(a, t, held)

----------------------------------------------------------------------------
(* projects list, projects create, datasets create *)

\* The projects the backend may hold
ProjectUniverse ==
    { [id |-> 1, name |-> Some(<<"a", "b">>), run_count |-> Some(2)],
      [id |-> 2, name |-> Some(<<"b", "a">>), run_count |-> Some(0)],
      [id |-> 3, name |-> Some(<<"a">>), run_count |-> None] }

\* the name filter list_projects hands to client.list_projects
api_name_filter(a) ==
    IF Truthy(a.name_pattern) /\ ~Truthy(a.name_)
       /\ Replace(a.name_pattern[1], "*", <<>>) # <<>>
    THEN Some(Replace(a.name_pattern[1], "*", <<>>))
    ELSE a.name_

\* client.list_projects(limit=..., name=...): at most `limit` projects
client_list_projects(limit, held) == Take(held, limit)

\* name_pattern.replace("*", ".*").replace("?", ".")
projects_pattern(name_pattern) ==
    Replace(Replace(name_pattern, "*", <<".", "*">>), "?", <<".">>)

\* list_projects: client-side pattern matching (wildcards)
projects_wildcard_filter(items, name_pattern) ==
    IF ~Truthy(name_pattern) THEN items
    ELSE SelectSeq(items, LAMBDA p :
            Truthy(p.name) /\ ReSearch(projects_pattern(name_pattern[1]), p.name[1]))

\* list_projects: --has-runs
has_runs_filter(items, has_runs) ==
    IF ~has_runs THEN items
    ELSE SelectSeq(items, LAMBDA p : p.run_count # None /\ p.run_count[1] > 0)

\* the fields of sort_key_map in list_projects
ProjectSortFields == {"name", "run_count"}

\* list_projects: is the sort field one of the map
projects_sort_known(sort_by) ==
    /\ Len(sort_field_of(sort_by)) = 1
    /\ sort_field_of(sort_by)[1] \in ProjectSortFields

\* list_projects: client-side sorting for table output
projects_sorted(items, a) ==
    IF Truthy(a.sort_by) /\ ~a.json /\ projects_sort_known(a.sort_by[1])
    THEN StableSorted(items, sort_field_of(a.sort_by[1])[1], a.sort_by[1][1] = "-")
    ELSE items

\* p.model_dump(include={"name", "id"}) / the two columns of the table
name_and_id(items) == [i \in 1..Len(items) |-> [name |-> items[i].name, id |-> items[i].id]]

\* list_projects (projects.py 26-114)
list_projects(a, held, fault) ==
    LET fetched  == client_list_projects(a.limit, held)
        matched  == apply_regex_filter(
                        projects_wildcard_filter(fetched, a.name_pattern), a.name_regex)
        with_runs == has_runs_filter(matched, a.has_runs)
        projects_list == projects_sorted(with_runs, a)
        warned   == IF Truthy(a.sort_by) /\ ~a.json /\ ~projects_sort_known(a.sort_by[1])
                    THEN <<[kind |-> "warning", rows |-> <<>>]>> ELSE <<>>
        shown(out) == [calls |-> <<>>, output_runs |-> <<>>, format_type |-> None,
                       stdout |-> out, exit_code |-> 0, error |-> None]
    IN  IF fault # None THEN propagate(fault[1], <<>>)
        ELSE IF Truthy(a.name_pattern) /\ ReCompileFails(projects_pattern(a.name_pattern[1]))
        THEN propagate(Raised("error", a.name_pattern[1]), <<>>)
        ELSE IF apply_regex_filter_error(a.name_regex) # None
        THEN propagate(apply_regex_filter_error(a.name_regex)[1], <<>>)
        ELSE IF a.json
        THEN shown(warned \o <<[kind |-> "json", rows |-> name_and_id(projects_list)]>>)
        ELSE IF projects_list = <<>>
        THEN shown(warned \o <<[kind |-> "no_projects", rows |-> <<>>]>>)
        ELSE shown(warned \o <<[kind |-> "table", rows |-> name_and_id(projects_list)]>>)

\* the object client.create_project / client.create_dataset returns
created(name) == [id |-> 9, name |-> Some(name)]

\* create_project (projects.py 117-139): a conflict is caught and reported
\* as a warning, every other exception leaves the command
create_project(a, fault) ==
    IF fault = None
    THEN [calls |-> <<>>, output_runs |-> <<>>, format_type |-> None,
          stdout |-> <<[kind |-> IF a.json THEN "json" ELSE "created",
                        rows |-> <<created(a.name)>>]>>,
          exit_code |-> 0, error |-> None]
    ELSE IF fault[1].kind = "LangSmithConflictError"
    THEN [calls |-> <<>>, output_runs |-> <<>>, format_type |-> None,
          stdout |-> <<[kind |-> "already_exists", rows |-> <<>>]>>,
          exit_code |-> 0, error |-> None]
    ELSE propagate(fault[1], <<>>)

\* create_dataset (datasets.py 62-81): no exception is caught
create_dataset(a, fault) ==
    IF fault = None
    THEN [calls |-> <<>>, output_runs |-> <<>>, format_type |-> None,
          stdout |-> <<[kind |-> IF a.json THEN "json" ELSE "created",
                        rows |-> <<created(a.name)>>]>>,
          exit_code |-> 0, error |-> None]
    ELSE propagate(fault[1], <<>>)

----------------------------------------------------------------------------
(* datasets push (datasets.py 84-117) *)

\* os.path.basename(file_path).split(".")[0], for a path without directories
file_stem(file_path) ==
    IF \E i \in 1..Len(file_path) : file_path[i] = "."
    THEN Take(file_path,
              (CHOOSE i \in 1..Len(file_path) :
                  file_path[i] = "." /\ \A k \in 1..(i - 1) : file_path[k] # ".") - 1)
    ELSE file_path

\* push_dataset: the dataset name it works on
push_dataset_name(a) == IF Truthy(a.dataset) THEN a.dataset[1] ELSE file_stem(a.file_path)

\* the lines of the file that line.strip() keeps
nonblank_lines(lines) == SelectSeq(lines, LAMBDA l : l # <<>>)

\* json.loads(line) raises
json_loads_fails(line) == line # <<"{", "}">>

\* the examples read from a file whose non-blank lines are all JSON
examples_read(lines) ==
    [i \in 1..Len(nonblank_lines(lines)) |-> [inputs |-> <<>>, outputs |-> None]]

\* push_dataset: the lookup, and the create that follows any exception of it
push_dataset_lookup_calls(a, fault) ==
    <<[method |-> "read_dataset", dataset_name |-> push_dataset_name(a)]>>
    \o (IF fault # None
        THEN <<[method |-> "create_dataset", dataset_name |-> push_dataset_name(a)]>>
        ELSE <<>>)

\* push_dataset as a whole; fault is what client.read_dataset raises
push_dataset(a, fault) ==
    LET lines  == nonblank_lines(a.file_lines)
        warned == IF fault # None
                  THEN <<[kind |-> "not_found_creating", rows |-> <<>>]>> ELSE <<>>
        looked == push_dataset_lookup_calls(a, fault)
    IN  IF \E i \in 1..Len(lines) : json_loads_fails(lines[i])
        THEN [calls |-> <<>>, dataset_calls |-> looked, output_runs |-> <<>>,
              format_type |-> None, stdout |-> warned, exit_code |-> 1,
              error |-> Some(Raised("JSONDecodeError", <<"Expecting value">>))]
        ELSE [calls |-> <<>>,
              dataset_calls |-> looked \o
                  <<[method |-> "create_examples", dataset_name |-> push_dataset_name(a)]>>,
              output_runs |-> <<>>, format_type |-> None,
              stdout |-> warned \o <<[kind |-> "pushed", rows |-> examples_read(a.file_lines)]>>,
              exit_code |-> 0, error |-> None]

----------------------------------------------------------------------------
(* runs watch (runs.py 421-520) *)

\* get_matching_projects(client, project=..., name_pattern=...): the names
\* of the projects to watch
get_matching_projects(held, project, name_pattern) ==
    IF Truthy(name_pattern)
    THEN LET m == apply_wildcard_filter(held, name_pattern)
         IN  [i \in 1..Len(m) |-> m[i].name[1]]
    ELSE <<project>>

\* projects_to_watch of this invocation
projects_to_watch(a, held) == get_matching_projects(held, a.project, a.name_pattern)

\* limit=5 if name_pattern else 10
WatchPatternLimit == 5

WatchProjectLimit == 10

watch_fetch_limit(a) ==
    IF Truthy(a.name_pattern) THEN WatchPatternLimit ELSE WatchProjectLimit

\* all_runs[:10]
WatchRows == 10

\* the k-th run of the n-th watched project; later runs have larger k
WatchRun(name, n, k) ==
    [id |-> 10 * n + k, name |-> Some(<<"r">>), session_name |-> Some(name),
     status |-> Some(<<"success">>), total_tokens |-> None, latency |-> None,
     start_time |-> Some(10 * k + n)]

\* what client.list_runs(project_name=name, limit=limit, is_root=True) may
\* do: raise, or return at most `limit` runs, most recent first; a run may
\* have no start_time
FetchOutcomes(name, n, limit) ==
    { [outcome |-> "raised", runs |-> <<>>],
      [outcome |-> "ok", runs |-> <<>>],
      [outcome |-> "ok",
       runs |-> Take([k \in 1..5 |-> WatchRun(name, n, 6 - k)], limit)],
      [outcome |-> "ok",
       runs |-> <<WatchRun(name, n, 1),
                  [WatchRun(name, n, 2) EXCEPT !.start_time = None]>>] }

RECURSIVE all_runs(_)
RECURSIVE all_runs_until_raise(_)
\* all_runs of a loop that stops at the first project whose fetch raises
all_runs_until_raise(fetches) ==
    IF fetches = <<>> \/ fetches[1].outcome = "raised" THEN <<>>
    ELSE fetches[1].runs \o all_runs_until_raise(Tail(fetches))

\* all_runs after the loop over the projects: the runs of every fetch that
\* returned, in fetch order
all_runs(fetches) ==
    IF fetches = <<>> THEN <<>>
    ELSE all_runs(SubSeq(fetches, 1, Len(fetches) - 1))
         \o (IF fetches[Len(fetches)].outcome = "ok"
             THEN fetches[Len(fetches)].runs ELSE <<>>)

\* all_runs.sort(key=lambda r: r.start_time or "", reverse=True) raises:
\* a datetime is compared with ""
watch_sort_raises(runs) ==
    \E i, j \in 1..Len(runs) : runs[i].start_time = None /\ runs[j].start_time # None

\* watch_sorted that keeps the order in which the projects were fetched
watch_sorted_in_fetch_order(runs) == runs

\* all_runs.sort(key=lambda r: r.start_time or "", reverse=True)
watch_sorted(runs) ==
    IF \A i \in 1..Len(runs) : runs[i].start_time = None THEN runs
    ELSE StableSorted(runs, "start_time", TRUE)

\* the rows of the table generate_table builds
watch_table(runs) ==
    [i \in 1..Len(runs) |->
        [name |-> IF Truthy(runs[i].name) THEN runs[i].name[1] ELSE <<"Unknown">>,
         project |-> IF Truthy(runs[i].session_name)
                     THEN runs[i].session_name[1] ELSE <<"Unknown">>,
         status |-> runs[i].status,
         tokens |-> IF runs[i].total_tokens # None /\ runs[i].total_tokens[1] > 0
                    THEN runs[i].total_tokens ELSE None,
         latency |-> runs[i].latency]]

\* generate_table once every project has been fetched: what Live shows
generate_table(fetches) ==
    LET shown == Take(watch_sorted(all_runs(fetches)), WatchRows)
    IN  [runs |-> shown, rows |-> watch_table(shown)]

\* the state of `runs watch` before its first fetch
WatchInit ==
    [fetches |-> <<>>, rendered |-> None, renders |-> 0, sleeps |-> 0,
     interrupted |-> FALSE]

----------------------------------------------------------------------------
(* The actions: one per command, and the steps of runs watch *)

Finish(r) ==
    /\ list_runs_calls' = r.calls
    /\ dataset_calls' = IF "dataset_calls" \in DOMAIN r THEN r.dataset_calls ELSE <<>>
    /\ output_runs' = r.output_runs
    /\ format_type' = r.format_type
    /\ stdout' = r.stdout
    /\ exit_code' = Some(r.exit_code)
    /\ error' = r.error
    /\ pc' = "done"
    /\ UNCHANGED <<args, now, backend_runs, backend_projects, backend_error, watch>>

ListRuns ==
    /\ pc = "start"
    /\ args.cmd = "list"
    /\ Finish(list_runs_outcome(args, now, backend_runs, backend_error))

SearchRuns ==
    /\ pc = "start"
    /\ args.cmd = "search"
    /\ Finish(list_runs_outcome(search_invoke_params(args), now, backend_runs,
                                backend_error))

ListProjects ==
    /\ pc = "start"
    /\ args.cmd = "projects list"
    /\ Finish(list_projects(args, backend_projects, backend_error))

CreateProject ==
    /\ pc = "start"
    /\ args.cmd = "projects create"
    /\ Finish(create_project(args, backend_error))

CreateDataset ==
    /\ pc = "start"
    /\ args.cmd = "datasets create"
    /\ Finish(create_dataset(args, backend_error))

PushDataset ==
    /\ pc = "start"
    /\ args.cmd = "datasets push"
    /\ Finish(push_dataset(args, backend_error))

\* an exception leaves watch_runs: the process ends with it
WatchEnds(code, e) ==
    /\ pc' = "done"
    /\ exit_code' = Some(code)
    /\ error' = e

\* watch_runs is entered: the first generate_table() starts, outside the try
WatchStart ==
    /\ pc = "start"
    /\ args.cmd = "watch"
    /\ pc' = "watch_fetch"
    /\ UNCHANGED <<args, now, backend_runs, backend_projects, backend_error,
                   list_runs_calls, dataset_calls, output_runs, format_type,
                   stdout, exit_code, error, watch>>

\* one turn of the loop over projects_to_watch: client.list_runs for the
\* next project; an Exception it raises is swallowed
WatchFetch ==
    /\ pc = "watch_fetch"
    /\ Len(watch.fetches) < Len(projects_to_watch(args, backend_projects))
    /\ LET n    == Len(watch.fetches) + 1
           name == projects_to_watch(args, backend_projects)[n]
       IN  \E o \in FetchOutcomes(name, n, watch_fetch_limit(args)) :
              watch' = [watch EXCEPT !.fetches =
                          Append(@, [project_name |-> name,
                                     limit |-> watch_fetch_limit(args),
                                     is_root |-> TRUE,
                                     outcome |-> o.outcome, runs |-> o.runs])]
    /\ UNCHANGED <<pc, args, now, backend_runs, backend_projects, backend_error,
                   list_runs_calls, dataset_calls, output_runs, format_type,
                   stdout, exit_code, error>>

\* the rest of generate_table and the Live display of its table: the sort,
\* the cut to 10 rows, then Live(...) or live.update(...).  A TypeError of
\* the sort is caught nowhere.
WatchRender ==
    /\ pc = "watch_fetch"
    /\ Len(watch.fetches) = Len(projects_to_watch(args, backend_projects))
    /\ IF watch_sort_raises(all_runs(watch.fetches))
       THEN /\ WatchEnds(uncaught_exit_code(Raised("TypeError", <<"'<' not supported">>)),
                         Some(Raised("TypeError", <<"'<' not supported">>)))
            /\ UNCHANGED watch
       ELSE /\ watch' = [watch EXCEPT !.rendered = Some(generate_table(watch.fetches)),
                                      !.renders = @ + 1]
            /\ pc' = "watch_sleep"
            /\ UNCHANGED <<exit_code, error>>
    /\ UNCHANGED <<args, now, backend_runs, backend_projects, backend_error,
                   list_runs_calls, dataset_calls, output_runs, format_type, stdout>>

\* time.sleep(interval) returns and the next generate_table() starts
WatchSleep ==
    /\ pc = "watch_sleep"
    /\ watch.sleeps < MaxRefreshes
    /\ pc' = "watch_fetch"
    /\ watch' = [watch EXCEPT !.sleeps = @ + 1, !.fetches = <<>>]
    /\ UNCHANGED <<args, now, backend_runs, backend_projects, backend_error,
                   list_runs_calls, dataset_calls, output_runs, format_type,
                   stdout, exit_code, error>>

\* the user presses Ctrl-C.  Inside the try (after the first table is shown)
\* KeyboardInterrupt is caught and the command returns; during the first
\* generate_table() it is not, and click turns it into Abort (status 1).
WatchInterrupt ==
    /\ pc \in {"watch_fetch", "watch_sleep"}
    /\ watch' = [watch EXCEPT !.interrupted = TRUE]
    /\ IF watch.renders = 0
       THEN WatchEnds(uncaught_exit_code(Raised("KeyboardInterrupt", <<>>)),
                      Some(Raised("KeyboardInterrupt", <<>>)))
       ELSE WatchEnds(0, None)
    /\ UNCHANGED <<args, now, backend_runs, backend_projects, backend_error,
                   list_runs_calls, dataset_calls, output_runs, format_type, stdout>>

----------------------------------------------------------------------------
(* The command lines that are explored *)

RawFilters == {<<"eq(name, \"x\")">>, <<"and(", "eq(a, 1)", ", ", "eq(b, 2)", ")">>}

TagLists == {<<>>, <<<<"p">>>>, <<<<"p">>, <<"q">>>>, <<<<"q">>, <<"p">>>>}

NamePatterns == {<<"*">>, <<"?">>, <<"*", "a", "*">>}

MinLatencies == {<<"2", "s">>, <<"5">>}

MaxLatencies == {<<"1", "0", "s">>}

Sinces == {<<"T", "9", "Z">>, <<"1", "d">>, <<"b", "a", "d">>}

Lasts == {<<"2", "h">>}

DurationEdges ==
    {<<>>, <<"5">>, <<"5", "x">>, <<"1", ".", "5", "s">>, <<"5", "0", "0", "m", "s">>,
     <<".", "5", "s">>, <<"3", "0", "m">>, <<"m">>}

TimeEdges ==
    {<<>>, <<"T", "9">>, <<"T", "9", "+00:00">>, <<"T", "9", "Z">>, <<"3", "0", "m">>,
     <<"1", "d">>, <<"5", "x">>, <<"5">>, <<"T">>}

\* option/value pairs tried one option at a time
EdgeOptions ==
    ({"filter_", "model"} \X {<<>>})
    \cup ({"name_pattern"} \X {<<>>, <<"a", "?">>, <<"?", "*">>, <<"*", "*">>})
    \cup ({"min_latency", "max_latency"} \X DurationEdges)
    \cup ({"since", "last"} \X TimeEdges)
    \cup ({"sort_by"} \X {<<>>, <<"-">>, <<"-", "-", "name">>})
    \cup ({"name_regex"} \X {<<>>, <<"a", "$">>, <<"b", "*", "a">>, <<".">>, <<"*", "a">>})

NameRegexes == {<<"a">>, <<"^", "a">>, <<"[", "a", "(">>}

SortBys ==
    {<<"name">>, <<"-", "name">>, <<"latency">>, <<"-", "start_time">>,
     <<"status">>, <<"bogus">>, <<"-", "bogus">>}

OutputFormats == {<<"table">>, <<"json">>, <<"csv">>, <<"yaml">>}

Nows == {3000, 4500}

Opt(S) == {None} \cup {Some(v) : v \in S}

\* sequences of distinct runs, at most MaxFetched long
RunSeqs ==
    UNION { { q \in [1..n -> RunUniverse] : \A i, j \in 1..n : i # j => q[i] # q[j] }
            : n \in 0..MaxFetched }

\* every combination of the options that feed the filter builder
BuilderInvocations ==
    { <<[DefaultListArgs EXCEPT
            !.filter_ = f, !.tag = tg, !.name_pattern = np, !.model = m,
            !.slow = sl, !.recent = sm[1], !.today = sm[2],
            !.min_latency = mn, !.max_latency = mx, !.since = si, !.last = la],
        3000, <<>>>> :
        f \in Opt(RawFilters), tg \in TagLists, np \in Opt(NamePatterns),
        m \in Opt({<<"g">>}), sl \in BOOLEAN, sm \in BOOLEAN \X BOOLEAN,
        mn \in Opt(MinLatencies), mx \in Opt(MaxLatencies),
        si \in Opt(Sinces), la \in Opt(Lasts) }

\* one option at a time, over the edge values, at both clock readings
EdgeInvocations ==
    { <<[DefaultListArgs EXCEPT ![kv[1]] = Some(kv[2]), !.json = j, !.slow = sl], t, q>> :
        kv \in EdgeOptions, j \in BOOLEAN, sl \in BOOLEAN, t \in Nows,
        q \in {<<>>} \cup {<<r>> : r \in RunUniverse} }

\* the options that do not feed the filter
PassThroughInvocations ==
    { <<[DefaultListArgs EXCEPT !.status = st, !.failed = fs[1], !.succeeded = fs[2],
            !.order_by = ob, !.tag = tg, !.recent = sm[1], !.today = sm[2]], t, <<>>>> :
        st \in Opt({"error", "success"}), fs \in BOOLEAN \X BOOLEAN,
        ob \in {<<"-", "start_time">>, <<"name">>}, tg \in {<<>>, <<<<>>>>},
        sm \in BOOLEAN \X BOOLEAN, t \in Nows }

\* the options of the result pipeline against every backend response
PipelineInvocations ==
    { <<[DefaultListArgs EXCEPT
            !.json = j, !.limit = l, !.name_regex = nr, !.name_pattern = np,
            !.sort_by = sb, !.output_format = fmt, !.min_latency = mn],
        3000, q>> :
        j \in BOOLEAN, l \in 1..MaxLimit, nr \in Opt(NameRegexes),
        np \in Opt({<<"*", "a", "*">>}), sb \in Opt(SortBys),
        fmt \in Opt(OutputFormats), mn \in Opt({<<"5">>}), q \in RunSeqs }

\* display limits around the over-fetch floor and ceiling
LimitInvocations ==
    { <<[DefaultListArgs EXCEPT !.limit = l, !.name_regex = nr, !.name_pattern = np],
        3000, q>> :
        l \in {5, 50, 60, 600}, nr \in Opt({<<"a">>}),
        np \in Opt({<<"*", "a", "*">>}), q \in {<<>>} \cup {<<r>> : r \in RunUniverse} }

SearchInvocations ==
    { <<[cmd |-> "search", json |-> j, query |-> qy, project |-> <<"default">>,
         limit |-> l, search_in |-> <<"all">>, input_contains |-> ic,
         output_contains |-> oc, output_format |-> fmt], 3000, q>> :
        j \in BOOLEAN, qy \in {<<"x">>, <<"y", "z">>}, l \in 1..MaxLimit,
        ic \in Opt({<<>>, <<"i">>}), oc \in Opt({<<"o">>}),
        fmt \in Opt(OutputFormats), q \in RunSeqs }

\* the exceptions the backend is made to raise
BackendErrors ==
    { Raised("LangSmithAuthError", <<"Invalid API key">>),
      Raised("LangSmithError", <<"Failed to GET /sessions. ", "401", " Unauthorized">>),
      Raised("LangSmithError", <<"Failed to GET /sessions. ", "403", " Forbidden">>),
      Raised("LangSmithError", <<"Server error: Internal server error (", "500", ")">>),
      Raised("LangSmithNotFoundError", <<"Run not found">>),
      Raised("LangSmithConflictError", <<"Project already exists">>),
      Raised("ValueError", <<"unexpected internal error">>),
      Raised("RuntimeError", <<"connection reset by peer">>),
      Raised("Exception", <<"Project not found">>) }

\* sequences of distinct projects
ProjectSeqs ==
    UNION { { q \in [1..n -> ProjectUniverse] : \A i, j \in 1..n : i # j => q[i] # q[j] }
            : n \in 0..Cardinality(ProjectUniverse) }

\* click defaults of the projects list options
DefaultProjectsArgs ==
    [cmd |-> "projects list", json |-> FALSE, limit |-> 100, name_ |-> None,
     name_pattern |-> None, name_regex |-> None,
     reference_dataset_id |-> None, reference_dataset_name |-> None,
     has_runs |-> FALSE, sort_by |-> None]

\* projects list against every backend response
ProjectsListInvocations ==
    { <<[DefaultProjectsArgs EXCEPT
            !.json = j, !.limit = l, !.name_ = nm, !.name_pattern = np,
            !.name_regex = nr, !.has_runs = hr, !.sort_by = sb], q, None>> :
        j \in BOOLEAN, l \in {MaxLimit, 100}, nm \in Opt({<<"b">>}),
        np \in Opt({<<"a">>, <<"a", "*">>, <<"*", "a">>, <<"?", "a">>, <<"*">>, <<"[">>}),
        nr \in Opt({<<"^", "a">>, <<"(">>}), hr \in BOOLEAN,
        sb \in Opt({<<"name">>, <<"-", "run_count">>, <<"bogus">>}), q \in ProjectSeqs }

\* every command against a backend that raises
FaultInvocations ==
    { <<a, q, Some(e)>> :
        a \in { [DefaultListArgs EXCEPT !.json = j, !.since = si, !.project = <<"a">>] :
                    j \in BOOLEAN, si \in Opt({<<"b", "a", "d">>}) }
              \cup { [DefaultProjectsArgs EXCEPT !.json = j] : j \in BOOLEAN }
              \cup { [cmd |-> "search", json |-> j, query |-> <<"x">>,
                      project |-> <<"default">>, limit |-> 1, search_in |-> <<"all">>,
                      input_contains |-> None, output_contains |-> None,
                      output_format |-> None] : j \in BOOLEAN }
              \cup { [cmd |-> c, json |-> j, name |-> <<"p">>, description |-> None] :
                        c \in {"projects create"}, j \in BOOLEAN }
              \cup { [cmd |-> c, json |-> j, name |-> <<"p">>, description |-> None,
                      dataset_type |-> <<"kv">>] :
                        c \in {"datasets create"}, j \in BOOLEAN },
        q \in {<<>>} \cup {<<r>> : r \in ProjectUniverse}, e \in BackendErrors }
    \cup
    { <<[cmd |-> c, json |-> j, name |-> nm, description |-> None], <<>>, None>> :
        c \in {"projects create"}, j \in BOOLEAN, nm \in {<<"p">>, <<"q">>} }
    \cup
    { <<[cmd |-> c, json |-> j, name |-> nm, description |-> None,
         dataset_type |-> <<"kv">>], <<>>, None>> :
        c \in {"datasets create"}, j \in BOOLEAN, nm \in {<<"p">>, <<"q">>} }

\* JSONL files of at most MaxLines lines: an example, a blank line, or a line
\* that is not JSON
JsonlFiles ==
    UNION { [1..n -> {<<"{", "}">>, <<>>, <<"x">>}] : n \in 0..MaxLines }

\* datasets push, against a lookup that succeeds or raises
PushInvocations ==
    { <<[cmd |-> "datasets push", json |-> j, file_path |-> <<"d", ".", "jsonl">>,
         file_lines |-> fl, dataset |-> ds], <<>>, e>> :
        j \in BOOLEAN, fl \in JsonlFiles, ds \in Opt({<<>>, <<"s">>}),
        e \in Opt(BackendErrors) }

\* runs watch over one project and over the projects matching a pattern
WatchInvocations ==
    { <<[cmd |-> "watch", json |-> FALSE, project |-> <<"default">>,
         name_pattern |-> np, interval |-> 2], q, None>> :
        np \in Opt({<<"*">>, <<"a", "*">>, <<"z">>}),
        q \in { qq \in ProjectSeqs : Len(qq) = Cardinality(ProjectUniverse) } }

\* an invocation against a backend that answers: <<args, now, backend_runs>>
Invoked(S) ==
    \E inv \in S :
        /\ args = inv[1]
        /\ now = inv[2]
        /\ backend_runs = inv[3]
        /\ backend_projects = <<>>
        /\ backend_error = None

\* <<args, backend_projects, backend_error>>
InvokedOn(S) ==
    \E inv \in S :
        /\ args = inv[1]
        /\ now = 3000
        /\ backend_runs = <<>>
        /\ backend_projects = inv[2]
        /\ backend_error = inv[3]

Init ==
    /\ pc = "start"
    /\ \/ Invoked(BuilderInvocations)
       \/ Invoked(EdgeInvocations)
       \/ Invoked(PassThroughInvocations)
       \/ Invoked(PipelineInvocations)
       \/ Invoked(LimitInvocations)
       \/ Invoked(SearchInvocations)
       \/ InvokedOn(ProjectsListInvocations)
       \/ InvokedOn(FaultInvocations)
       \/ InvokedOn(PushInvocations)
       \/ InvokedOn(WatchInvocations)
    /\ list_runs_calls = <<>>
    /\ dataset_calls = <<>>
    /\ output_runs = <<>>
    /\ format_type = None
    /\ stdout = <<>>
    /\ exit_code = None
    /\ error = None
    /\ watch = WatchInit

Next ==
    \/ ListRuns
    \/ SearchRuns
    \/ ListProjects
    \/ CreateProject
    \/ CreateDataset
    \/ PushDataset
    \/ WatchStart
    \/ WatchFetch
    \/ WatchRender
    \/ WatchSleep
    \/ WatchInterrupt

Spec == Init /\ [][Next]_vars

----------------------------------------------------------------------------
(* Properties of the filter builder *)

ListDone == pc = "done" /\ args.cmd = "list"

\* the single client.list_runs call of a finished `runs list`
TheCall == list_runs_calls[1]

\* The predicates the options of `runs list` stand for, slot by slot, in the
\* documented order: raw, tags, name, model, slow, recent, today, min-latency,
\* max-latency, since, last.  The name slot holds the search over the term
\* the command derives from --name-pattern, whatever that term is.
ActivePredicates ==
    LET a == args
        slot(on, text) == IF on THEN <<text>> ELSE <<>>
        term == IF a.name_pattern = None THEN <<>>
                ELSE search_term(a.name_pattern[1])
        stamp(m) == <<"gt(start_time, \"", "T">> \o IntStr(m) \o <<"+00:00", "\")">>
    IN  slot(a.filter_ \notin {None, Some(<<>>)}, OrEmpty(a.filter_))
        \o [i \in 1..Len(a.tag) |-> <<"has(tags, \"">> \o a.tag[i] \o <<"\")">>]
        \o slot(term # <<>>, <<"search(\"">> \o term \o <<"\")">>)
        \o slot(a.model \notin {None, Some(<<>>)},
                <<"search(\"">> \o OrEmpty(a.model) \o <<"\")">>)
        \o slot(a.slow, <<"gt(latency, \"", "5", "s", "\")">>)
        \o slot(a.recent, stamp(now - 60))
        \o slot(a.today, stamp((now \div 1440) * 1440))
        \o slot(a.min_latency \notin {None, Some(<<>>)},
                <<"gt(latency, \"">> \o OrEmpty(a.min_latency) \o <<"\")">>)
        \o slot(a.max_latency \notin {None, Some(<<>>)},
                <<"lt(latency, \"">> \o OrEmpty(a.max_latency) \o <<"\")">>)
        \o slot(a.since \notin {None, Some(<<>>)},
                <<"gt(start_time, \"">>
                \o isoformat(since_timestamp(OrEmpty(a.since), now)) \o <<"\")">>)
        \o slot(a.last \notin {None, Some(<<>>)},
                <<"gt(start_time, \"">>
                \o isoformat(parse_relative_time(OrEmpty(a.last), now)) \o <<"\")">>)

RECURSIVE CommaJoined(_)
CommaJoined(ps) ==
    IF Len(ps) = 1 THEN ps[1] ELSE ps[1] \o <<", ">> \o CommaJoined(Tail(ps))

\* C1: in `runs list`, with two or more active predicates the filter passed
\* to client.list_runs is "and(" + the predicates, each once, comma-joined in
\* the fixed builder order (raw, tags, name, model, slow, recent, today,
\* min-latency, max-latency, since, last) + ")".
C1_ConjunctionInBuilderOrder ==
    (ListDone /\ list_runs_calls # <<>> /\ Len(ActivePredicates) >= 2) =>
        /\ Len(list_runs_calls) = 1
        /\ TheCall.filter # None
        /\ Head(TheCall.filter[1]) = "and("
        /\ TheCall.filter[1] = <<"and(">> \o CommaJoined(ActivePredicates) \o <<")">>

\* C1 witness: raw filter, two tags, name, model, smart flags, latency bounds
\* and time flags are all active at once and the call was made
C1_Witness ==
    /\ ListDone
    /\ list_runs_calls # <<>>
    /\ Len(ActivePredicates) = 12
    /\ args.tag = <<<<"q">>, <<"p">>>>
    /\ args.filter_ # None
    /\ args.last # None

\* C2: in `runs list`, with exactly one active predicate the filter passed to
\* client.list_runs is that predicate verbatim, with no "and(" wrapper added,
\* also when the predicate is a raw --filter that is itself an and(...).
C2_SinglePredicateVerbatim ==
    (ListDone /\ list_runs_calls # <<>> /\ Len(ActivePredicates) = 1) =>
        /\ Len(list_runs_calls) = 1
        /\ TheCall.filter = Some(ActivePredicates[1])
        /\ (args.filter_ = None => Head(TheCall.filter[1]) # "and(")

\* C2 witness: the only predicate is a raw --filter that is an and(...) itself
C2_Witness ==
    /\ ListDone
    /\ Len(ActivePredicates) = 1
    /\ args.filter_ = Some(<<"and(", "eq(a, 1)", ", ", "eq(b, 2)", ")">>)
    /\ list_runs_calls # <<>>
    /\ TheCall.filter = args.filter_

\* a string made only of the wildcard characters * and ?
OnlyWildcards(p) == \A i \in 1..Len(p) : p[i] \in {"*", "?"}

\* C3: in `runs list`, when no option yields a predicate (no --filter, --tag,
\* --model, smart flag, latency or time option, and --name-pattern absent or
\* made only of wildcard characters) the filter passed is None.
C3_NoPredicateNoFilter ==
    (/\ ListDone
     /\ list_runs_calls # <<>>
     /\ args.filter_ = None /\ args.tag = <<>> /\ args.model = None
     /\ ~args.slow /\ ~args.recent /\ ~args.today
     /\ args.min_latency = None /\ args.max_latency = None
     /\ args.since = None /\ args.last = None
     /\ (args.name_pattern = None \/ OnlyWildcards(args.name_pattern[1])))
    => TheCall.filter = None

\* C4: no client.list_runs call made by `runs list` or `runs search` carries
\* an order_by argument.
C4_OrderByNeverPassed ==
    \A i \in 1..Len(list_runs_calls) : "order_by" \notin DOMAIN list_runs_calls[i]

----------------------------------------------------------------------------
(* Properties of the result pipeline *)

Range(q) == {q[i] : i \in 1..Len(q)}

ClientFilterActive == Truthy(args.name_regex) \/ Truthy(args.name_pattern)

\* C5: the runs shown by `runs list` are the first `limit` of: every
\* client-side filter (regex, then wildcard) applied to all fetched runs, then
\* sorted by --sort-by; with a client-side filter active no more than `limit`
\* runs are shown.
C5_FilterSortThenLimit ==
    (ListDone /\ error = None) =>
        LET fetched  == client_list_runs(TheCall, backend_runs)
            filtered == apply_wildcard_filter(
                            apply_regex_filter(fetched, args.name_regex),
                            args.name_pattern)
            sorted   == IF Truthy(args.sort_by)
                        THEN sort_items(filtered, args.sort_by[1]) ELSE filtered
        IN  /\ output_runs = Take(sorted, args.limit)
            /\ ClientFilterActive => Len(output_runs) <= args.limit

\* C6: for a fixed backend response and fixed options, `runs list` includes
\* the same set of runs under every choice of --format and of the global
\* --json flag.
C6_FormatDoesNotChangeRecords ==
    (ListDone /\ error = None) =>
        \A fmt \in Opt(OutputFormats), j \in BOOLEAN :
            LET other == list_runs_result(
                             [args EXCEPT !.output_format = fmt, !.json = j],
                             now, backend_runs)
            IN  /\ other.error = None
                /\ Range(other.output_runs) = Range(output_runs)

\* C7: with --name-regex or --name-pattern active, the limit passed to
\* client.list_runs exceeds the display limit (an absent limit is unbounded).
C7_FetchLimitExceedsDisplayLimit ==
    (ListDone /\ ClientFilterActive) =>
        \A i \in 1..Len(list_runs_calls) :
            \/ list_runs_calls[i].limit = None
            \/ list_runs_calls[i].limit[1] > args.limit

OverFetchFloor == 100

OverFetchCeiling == 500

PatternMultiplier == 3

RegexMultiplier == 10

Clamp(n) ==
    IF n < OverFetchFloor THEN OverFetchFloor
    ELSE IF n > OverFetchCeiling THEN OverFetchCeiling ELSE n

\* C8: with --name-pattern or --name-regex given, the limit passed to
\* client.list_runs is min(max(limit * m, 100), 500), m = 3 for the pattern
\* and m = 10 for the regex; it is never None and never above 500.
C8_FetchLimitIsClamped ==
    (ListDone /\ list_runs_calls # <<>> /\ ClientFilterActive) =>
        /\ TheCall.limit # None
        /\ TheCall.limit[1] <= OverFetchCeiling
        /\ \/ Truthy(args.name_regex)
              /\ TheCall.limit[1] = Clamp(args.limit * RegexMultiplier)
           \/ Truthy(args.name_pattern)
              /\ TheCall.limit[1] = Clamp(args.limit * PatternMultiplier)

----------------------------------------------------------------------------
(* Properties of input validation *)

\* the option values of this invocation that are not well formed
MalformedValues ==
    {v \in {OrEmpty(args.min_latency), OrEmpty(args.max_latency)} :
        /\ Some(v) \in {args.min_latency, args.max_latency}
        /\ ~DurationMatches(v)}
    \cup {v \in {OrEmpty(args.since)} :
            /\ args.since = Some(v)
            /\ ~IsoParses(Replace(v, "Z", <<"+00:00">>))
            /\ ~RelativeTimeMatches(v)}
    \cup {v \in {OrEmpty(args.last)} :
            /\ args.last = Some(v)
            /\ ~RelativeTimeMatches(v)}

\* C9: a --min-latency or --max-latency that is not <number>(ms|s|m|h|d), or
\* a --since or --last that is not a valid time string, ends `runs list` with
\* a non-zero exit and a parameter error naming the value, and
\* client.list_runs is never called.
C9_MalformedValueFailsBeforeFetch ==
    (ListDone /\ MalformedValues # {}) =>
        /\ exit_code \notin {None, Some(0)}
        /\ error # None
        /\ error[1].kind = "BadParameter"
        /\ \E v \in MalformedValues : Contains(error[1].message, v)
        /\ list_runs_calls = <<>>

\* C10: a --name-regex that does not compile ends `runs list` with a non-zero
\* exit and an 'Invalid regex pattern' error, and client.list_runs is never
\* called.
C10_InvalidRegexFailsBeforeFetch ==
    (ListDone /\ args.name_regex # None /\ ReCompileFails(OrEmpty(args.name_regex))) =>
        /\ exit_code \notin {None, Some(0)}
        /\ error # None
        /\ StartsWith(error[1].message, <<"Invalid regex pattern: ">>)
        /\ list_runs_calls = <<>>

----------------------------------------------------------------------------
(* Properties of --since and --name-pattern *)

\* how many times the symbol c occurs in the string s
CountSym(s, c) == Cardinality({i \in 1..Len(s) : s[i] = c})

\* the text of the timestamp --since V stands for: the ISO reading of V (a
\* trailing Z read as +00:00) when V has one, else now minus the duration
SinceStampText(v) ==
    LET w == Replace(v, "Z", <<"+00:00">>)
    IN  IF IsoParses(w)
        THEN IF w[Len(w)] = "+00:00"
             THEN <<"T">> \o IntStr(ParseInt(SubSeq(w, 2, Len(w) - 1))) \o <<"+00:00">>
             ELSE <<"T">> \o IntStr(ParseInt(Tail(w)))
        ELSE <<"T">>
             \o IntStr(now - ParseInt(SubSeq(v, 1, Len(v) - 1))
                             * (CASE v[Len(v)] = "m" -> 1
                                  [] v[Len(v)] = "h" -> 60
                                  [] v[Len(v)] = "d" -> 1440))
             \o <<"+00:00">>

\* C11: for `runs list --since V`, a V that parses as ISO-8601 (trailing Z
\* read as UTC) gives the predicate gt(start_time, V's timestamp); otherwise a
\* V of the form <integer>(m|h|d) gives gt(start_time, now - duration);
\* otherwise the command fails.  In each successful case exactly one
\* start-time predicate is added for --since.
C11_SinceIsoThenRelative ==
    (ListDone /\ args.since # None) =>
        LET v   == args.since[1]
            iso == IsoParses(Replace(v, "Z", <<"+00:00">>))
            rel == RelativeTimeMatches(v)
        IN  IF iso \/ rel
            THEN list_runs_calls # <<>> =>
                   /\ TheCall.filter # None
                   /\ Contains(TheCall.filter[1],
                               <<"gt(start_time, \"">> \o SinceStampText(v) \o <<"\")">>)
                   /\ CountSym(TheCall.filter[1], "gt(start_time, \"")
                        = 1 + (IF args.recent THEN 1 ELSE 0)
                            + (IF args.today THEN 1 ELSE 0)
                            + (IF Truthy(args.last) THEN 1 ELSE 0)
            ELSE /\ exit_code \notin {None, Some(0)}
                 /\ error # None
                 /\ list_runs_calls = <<>>

\* the part of C11 that concerns a non-empty V
C11_NonEmptySince ==
    (ListDone /\ Truthy(args.since)) => C11_SinceIsoThenRelative

\* P with every * and every ? removed
WithoutWildcards(p) == SelectSeq(p, LAMBDA c : c \notin {"*", "?"})

\* C12: for `runs list --name-pattern P` the server-side search term is P
\* with every * and every ? removed; search("term") is emitted if and only
\* if that term is non-empty, and the emitted term holds no wildcard character.
C12_SearchTermHasNoWildcard ==
    (ListDone /\ list_runs_calls # <<>> /\ args.name_pattern # None) =>
        LET term     == WithoutWildcards(args.name_pattern[1])
            text     == OrEmpty(TheCall.filter)
            searches == CountSym(text, "search(\"")
        IN  /\ searches = (IF term # <<>> THEN 1 ELSE 0)
                          + (IF Truthy(args.model) THEN 1 ELSE 0)
            /\ term # <<>> => Contains(text, <<"search(\"">> \o term \o <<"\")">>)
            /\ CountSym(text, "*") = 0
            /\ CountSym(text, "?") = 0

\* C13: every run that `runs list --name-pattern P` outputs has a name
\* matching the glob P, whatever the backend returned; with --name-regex also
\* given, every run shown matches both.
C13_OutputMatchesGlob ==
    (ListDone /\ error = None /\ Truthy(args.name_pattern)) =>
        /\ apply_wildcard_filter(output_runs, args.name_pattern) = output_runs
        /\ apply_regex_filter(output_runs, args.name_regex) = output_runs

----------------------------------------------------------------------------
(* Properties of error handling *)

Done == pc = "done"

\* the backend call of the command is reached and raises
BackendRaised ==
    /\ backend_error # None
    /\ args.cmd = "list" => builder_error(args) = None

\* the exception the backend raised
TheFault == backend_error[1]

CreateCommands == {"projects create", "datasets create"}

\* the JSON error objects written to stdout
ErrorObjects == {i \in 1..Len(stdout) : stdout[i].kind = "error_object"}

\* C14: a backend conflict is the only failure that ends an invocation with
\* exit code 0.  A conflict raised by a create command (projects create,
\* datasets create) exits 0 with an 'already exists' warning and no JSON
\* error object; every other failure (authentication, permission, not-found,
\* validation, fetch, unanticipated) exits non-zero.
C14_OnlyConflictExitsZero ==
    Done =>
        /\ (BackendRaised /\ TheFault.kind = "LangSmithConflictError"
              /\ args.cmd \in CreateCommands) =>
             /\ exit_code = Some(0)
             /\ \E i \in 1..Len(stdout) : stdout[i].kind = "already_exists"
             /\ ErrorObjects = {}
        /\ (BackendRaised /\ TheFault.kind # "LangSmithConflictError") =>
             exit_code \notin {None, Some(0)}
        /\ (error # None /\ error[1].kind = "BadParameter") =>
             exit_code \notin {None, Some(0)}

\* the part of C14 that concerns projects create and the other failure kinds
C14_ExceptDatasetsCreate ==
    (Done /\ args.cmd # "datasets create") => C14_OnlyConflictExitsZero

\* C15: when the backend raises an authentication exception on a listing
\* call in --json mode, the exit code is non-zero and stdout is exactly one
\* JSON object with error = "AuthenticationError" and the keys message and
\* help; nothing else is written to stdout.
C15_AuthErrorIsOneJsonObject ==
    (Done /\ args.cmd \in {"list", "projects list"} /\ args.json
          /\ BackendRaised /\ TheFault.kind = "LangSmithAuthError") =>
        /\ exit_code \notin {None, Some(0)}
        /\ Len(stdout) = 1
        /\ ErrorObjects = {1}
        /\ {"error", "message", "help"} \subseteq DOMAIN stdout[1]
        /\ stdout[1].error = "AuthenticationError"

\* the classification table: first match wins
ClassifiedKind(e) ==
    IF e.kind = "LangSmithAuthError" THEN "AuthenticationError"
    ELSE IF e.kind = "LangSmithError" /\ Contains(e.message, <<"401">>)
    THEN "AuthenticationError"
    ELSE IF e.kind = "LangSmithError" /\ Contains(e.message, <<"403">>)
    THEN "PermissionError"
    ELSE IF e.kind = "LangSmithNotFoundError" THEN "NotFoundError"
    ELSE IF e.kind = "LangSmithConflictError" THEN "ConflictError"
    ELSE e.kind

\* the kinds under which the failure of this invocation was reported: the
\* `error` of each JSON error object, and ConflictError for the
\* 'already exists' warning
ReportedKinds ==
    {stdout[i].error : i \in ErrorObjects}
    \cup (IF \E i \in 1..Len(stdout) : stdout[i].kind = "already_exists"
          THEN {"ConflictError"} ELSE {})

\* C16: every failure raised during a command is reported under exactly one
\* kind, the first match of the table: an auth exception or a generic backend
\* error carrying 401 is AuthenticationError, a generic backend error carrying
\* 403 is PermissionError, not-found is NotFoundError, a conflict is
\* ConflictError, any other generic backend error keeps its class name.
C16_FailureClassifiedOnce ==
    (Done /\ args.json /\ BackendRaised) =>
        ReportedKinds = {ClassifiedKind(TheFault)}

Unanticipated == {"ValueError", "RuntimeError"}

\* C17: an unanticipated exception (ValueError, RuntimeError) ends the
\* command with a non-zero exit in both modes; in --json mode stdout is one
\* JSON object whose error is the class name and whose message is the text;
\* in human mode the exception leaves the command unchanged.
C17_UnanticipatedException ==
    (Done /\ BackendRaised /\ TheFault.kind \in Unanticipated) =>
        /\ exit_code \notin {None, Some(0)}
        /\ args.json =>
             /\ Len(stdout) = 1
             /\ ErrorObjects = {1}
             /\ stdout[1].error = TheFault.kind
             /\ stdout[1].message = TheFault.message
        /\ ~args.json =>
             /\ error = Some(TheFault)
             /\ ErrorObjects = {}

\* the human-mode part of C17, and the exit code in both modes
C17_HumanModePropagates ==
    (Done /\ BackendRaised /\ TheFault.kind \in Unanticipated) =>
        /\ exit_code \notin {None, Some(0)}
        /\ ~args.json => (error = Some(TheFault) /\ ErrorObjects = {})

\* the names of the valid projects that are a near match of the failed name:
\* one contains the other
NearMatches(failed) ==
    {backend_projects[i].name[1] : i \in
        {k \in 1..Len(backend_projects) :
            /\ Truthy(backend_projects[k].name)
            /\ \/ Contains(backend_projects[k].name[1], failed)
               \/ Contains(failed, backend_projects[k].name[1])}}

\* C18: when the fetch of `runs list` fails, the failure is reported as a
\* FetchError with a non-zero exit; failed_sources holds exactly one
\* {name, error} entry per failed source and suggestions holds every valid
\* project name that is a near match of a failed name.
C18_FetchErrorNamesFailedSources ==
    (Done /\ args.cmd = "list" /\ args.json /\ BackendRaised
          /\ TheFault.kind = "Exception") =>
        /\ exit_code \notin {None, Some(0)}
        /\ ErrorObjects # {}
        /\ \A i \in ErrorObjects :
             /\ stdout[i].error = "FetchError"
             /\ Len(stdout[i].failed_sources) = 1
             /\ stdout[i].failed_sources[1].name = args.project
             /\ stdout[i].failed_sources[1].error = TheFault.message
             /\ NearMatches(args.project) \subseteq Range(stdout[i].suggestions)

----------------------------------------------------------------------------
(* Properties of the output stream and of sort_items *)

\* C19: when the active format of a successful `runs list` is json, stdout
\* is written exactly once and holds exactly one JSON array and nothing
\* else, for every flag combination; the warning of --sort-by with an
\* unknown field is not mixed into it.
C19_JsonStdoutIsOneArray ==
    (ListDone /\ error = None /\ format_type = Some(<<"json">>)) =>
        stdout = <<[kind |-> "json", rows |-> output_runs]>>

\* the call sort_items(runs, sort_by, sort_key_map, console) was made
SortItemsCalled == ListDone /\ error = None /\ Truthy(args.sort_by) /\ ~args.json

\* the list handed to sort_items
SortItemsInput ==
    apply_regex_filter(client_list_runs(TheCall, backend_runs), args.name_regex)

\* the sort field, the leading `-` characters stripped, is no key of the map
UnknownSortField ==
    LET f == LStrip(args.sort_by[1], "-")
    IN  Len(f) # 1 \/ f[1] \notin {"name", "status", "latency", "start_time"}

\* sorting by start_time compares a missing start_time with another key
KeyFails ==
    /\ LStrip(args.sort_by[1], "-") = <<"start_time">>
    /\ Len(SortItemsInput) >= 2
    /\ \E i \in 1..Len(SortItemsInput) : SortItemsInput[i].start_time = None

\* C20: sort_items called with a sort field that is no key of the sort-key
\* map (with or without the leading `-`) returns its input unchanged, same
\* elements in the same order, prints one warning and does not raise; the
\* same holds when computing or comparing the keys fails on some item.
C20_SortItemsFallsBackToInput ==
    (SortItemsCalled /\ (UnknownSortField \/ KeyFails)) =>
        /\ output_runs = apply_client_side_limit(SortItemsInput, args.limit,
                                                 Truthy(args.name_regex))
        /\ Cardinality({i \in 1..Len(stdout) : stdout[i].kind = "warning"}) = 1
        /\ exit_code = Some(0)

\* C20 witness: `--sort-by -bogus` over two fetched runs that a descending
\* sort by name would have exchanged
C20_Witness ==
    /\ SortItemsCalled
    /\ args.sort_by = Some(<<"-", "bogus">>)
    /\ Len(output_runs) = 2
    /\ output_runs[1].id = 2
    /\ output_runs[2].id = 1
    /\ stdout[1].kind = "warning"

----------------------------------------------------------------------------
(* Properties of rendering, of the latency options, of runs search and of *)
(* the output format                                                       *)

\* the entries of stdout of the given kind
Written(kind) == {i \in 1..Len(stdout) : stdout[i].kind = kind}

\* C21: when no run is left after all filtering, `runs list` exits 0 and, in
\* table mode, prints the 'No runs found' indicator and no table; in json,
\* yaml and csv mode it writes an empty collection, never nothing at all.
C21_EmptyResultIsRendered ==
    (ListDone /\ error = None /\ output_runs = <<>>) =>
        /\ exit_code = Some(0)
        /\ format_type = Some(<<"table">>) =>
             (Written("no_runs") # {} /\ Written("table") = {})
        /\ \A f \in {"json", "yaml", "csv"} :
             format_type = Some(<<f>>) =>
                \E i \in Written(f) : stdout[i].rows = <<>>

\* the part of C21 that concerns table, json and yaml
C21_ExceptCsv ==
    (ListDone /\ format_type # Some(<<"csv">>)) => C21_EmptyResultIsRendered

ValidDuration(o) == o # None /\ DurationMatches(o[1])

\* C24: for every valid duration D, --min-latency D adds exactly
\* gt(latency, "D") and --max-latency D adds exactly lt(latency, "D"), D
\* unchanged; given together and alone they yield
\* and(gt(latency, "min"), lt(latency, "max")).
C24_LatencyPredicates ==
    (ListDone /\ list_runs_calls # <<>>) =>
        LET text == OrEmpty(TheCall.filter)
            gt   == <<"gt(latency, \"">> \o OrEmpty(args.min_latency) \o <<"\")">>
            lt   == <<"lt(latency, \"">> \o OrEmpty(args.max_latency) \o <<"\")">>
        IN  /\ ValidDuration(args.min_latency) =>
                 /\ Contains(text, gt)
                 /\ CountSym(text, "gt(latency, \"") = 1 + (IF args.slow THEN 1 ELSE 0)
            /\ ValidDuration(args.max_latency) =>
                 /\ Contains(text, lt)
                 /\ CountSym(text, "lt(latency, \"") = 1
            /\ (ValidDuration(args.min_latency) /\ ValidDuration(args.max_latency)
                  /\ Len(ActivePredicates) = 2) =>
                 TheCall.filter = Some(<<"and(">> \o gt \o <<", ">> \o lt \o <<")">>)

\* C24 witness: --min-latency 2s --max-latency 10s and nothing else
C24_Witness ==
    /\ ListDone
    /\ list_runs_calls # <<>>
    /\ args.min_latency = Some(<<"2", "s">>)
    /\ args.max_latency = Some(<<"1", "0", "s">>)
    /\ Len(ActivePredicates) = 2

SearchDone == pc = "done" /\ args.cmd = "search"

\* C25: `runs search QUERY` makes exactly one client.list_runs call, whose
\* filter is search("QUERY") alone when no contains term is given and
\* and(search("QUERY"), search(input), search(output)), in that order and
\* each given term once, otherwise; `runs list` does not wrap it again.
C25_SearchFilter ==
    SearchDone =>
        LET terms == <<args.query>>
                     \o (IF Truthy(args.input_contains)
                         THEN <<args.input_contains[1]>> ELSE <<>>)
                     \o (IF Truthy(args.output_contains)
                         THEN <<args.output_contains[1]>> ELSE <<>>)
            preds == [i \in 1..Len(terms) |-> <<"search(\"">> \o terms[i] \o <<"\")">>]
        IN  /\ Len(list_runs_calls) = 1
            /\ TheCall.filter # None
            /\ Len(terms) = 1 => TheCall.filter[1] = preds[1]
            /\ Len(terms) > 1 =>
                 TheCall.filter[1] = <<"and(">> \o CommaJoined(preds) \o <<")">>
            /\ CountSym(TheCall.filter[1], "and(") <= 1

\* C25 witness: a search with both contains terms
C25_Witness ==
    /\ SearchDone
    /\ args.query = <<"y", "z">>
    /\ args.input_contains = Some(<<"i">>)
    /\ args.output_contains = Some(<<"o">>)
    /\ Len(list_runs_calls) = 1

\* C26: the active output format is the explicit --format value when given,
\* otherwise json when the global --json flag is set, otherwise table; an
\* explicit --format overrides --json, and what is written is in that format.
C26_ActiveFormat ==
    (Done /\ args.cmd \in {"list", "search"} /\ error = None) =>
        LET expected == IF args.output_format # None THEN args.output_format[1]
                        ELSE IF args.json THEN <<"json">> ELSE <<"table">>
        IN  /\ format_type = Some(expected)
            /\ \A i \in 1..Len(stdout) :
                 stdout[i].kind \in {"warning", expected[1]}
                                    \cup (IF expected = <<"table">> THEN {"no_runs"} ELSE {})

\* C26 witness: --json together with --format csv, with a run to show
C26_Witness ==
    /\ ListDone
    /\ args.json
    /\ args.output_format = Some(<<"csv">>)
    /\ format_type = Some(<<"csv">>)
    /\ Written("csv") # {}

----------------------------------------------------------------------------
(* The two wildcard matchers *)

\* C30: the inline matcher of `projects list --name-pattern` keeps a name if
\* and only if apply_wildcard_filter keeps it: a pattern that does not start
\* (or end) with * matches only names that start (or end) with its text.
C30_WildcardMatchersAgree ==
    (Done /\ args.cmd = "projects list" /\ error = None /\ Truthy(args.name_pattern)
          /\ args.json /\ ~args.has_runs /\ args.name_regex = None) =>
        /\ Len(stdout) = 1
        /\ stdout[1].rows =
              name_and_id(apply_wildcard_filter(
                              client_list_projects(args.limit, backend_projects),
                              args.name_pattern))

----------------------------------------------------------------------------
(* Properties of datasets push *)

PushDone == pc = "done" /\ args.cmd = "datasets push"

\* the client methods `datasets push` called, in order
MethodsCalled == [i \in 1..Len(dataset_calls) |-> dataset_calls[i].method]

\* C27: `datasets push` looks the dataset up by name and calls
\* create_dataset only when that lookup fails with not-found; any other
\* lookup failure is propagated, and then neither create_dataset nor
\* create_examples is called.
C27_CreateOnlyOnNotFound ==
    PushDone =>
        /\ Len(dataset_calls) >= 1
        /\ MethodsCalled[1] = "read_dataset"
        /\ "create_dataset" \in Range(MethodsCalled) =>
              (backend_error # None /\ TheFault.kind = "LangSmithNotFoundError")
        /\ (backend_error # None /\ TheFault.kind # "LangSmithNotFoundError") =>
              /\ error = backend_error
              /\ exit_code \notin {None, Some(0)}
              /\ Range(MethodsCalled) \cap {"create_dataset", "create_examples"} = {}

\* the part of C27 that concerns a lookup that succeeds or raises not-found
C27_FoundOrNotFound ==
    (PushDone /\ (backend_error = None \/ TheFault.kind = "LangSmithNotFoundError"))
        => C27_CreateOnlyOnNotFound

----------------------------------------------------------------------------
(* Properties of runs watch *)

Watching == args.cmd = "watch"

WatchDone == Watching /\ pc = "done"

\* a table is on display and the command sleeps before the next refresh
WatchShown == Watching /\ pc = "watch_sleep"

\* C22: in `runs watch` a user interrupt at any point of a sleep phase or of
\* a fetch phase, the very first fetch included, ends the command cleanly:
\* the loop stops, no exception escapes the command, and the interrupt
\* leaves the table on display as it was (no partly built table is shown).
C22_InterruptEndsCleanly ==
    /\ [](WatchDone /\ watch.interrupted => exit_code = Some(0) /\ error = None)
    /\ [][(Watching /\ watch'.interrupted /\ ~watch.interrupted) =>
            (pc' = "done" /\ watch'.rendered = watch.rendered)]_vars

\* the part of C22 that concerns an interrupt after the first table is shown
C22_AfterFirstTable ==
    (WatchDone /\ watch.interrupted /\ watch.renders >= 1) =>
        (exit_code = Some(0) /\ error = None)

\* C23: `runs watch` repeats fetch, render, sleep: every render shows the
\* result of the fetch round completed just before it, two consecutive
\* renders are separated by exactly one sleep, and the loop stops only when
\* the user interrupts it, whatever the backend returns or raises.
C23_LoopStopsOnlyOnInterrupt ==
    /\ WatchShown =>
         /\ Len(watch.fetches) = Len(projects_to_watch(args, backend_projects))
         /\ watch.rendered = Some(generate_table(watch.fetches))
         /\ watch.renders = watch.sleeps + 1
    /\ (Watching /\ pc = "watch_fetch") => watch.renders = watch.sleeps
    /\ WatchDone => watch.interrupted

\* the part of C23 that holds: a command that ended without an interrupt
\* ended in the sort of generate_table
C23_StopsOnlyOnInterruptOrSort ==
    /\ WatchShown =>
         /\ Len(watch.fetches) = Len(projects_to_watch(args, backend_projects))
         /\ watch.rendered = Some(generate_table(watch.fetches))
         /\ watch.renders = watch.sleeps + 1
    /\ (Watching /\ pc = "watch_fetch") => watch.renders = watch.sleeps
    /\ (WatchDone /\ ~watch.interrupted) =>
         (error # None /\ error[1].kind = "TypeError")

\* the fetches of the round on display that returned
Returned == {i \in 1..Len(watch.fetches) : watch.fetches[i].outcome = "ok"}

\* the runs merged in the round on display
MergedRuns == UNION {Range(watch.fetches[i].runs) : i \in Returned}

\* the runs on display
ShownRuns == Range(watch.rendered[1].runs)

\* C28: each refresh of `runs watch` renders at most 10 runs, in descending
\* start-time order, chosen from the merged runs of all watched projects:
\* no merged run that is more recent than a rendered run is left out.
C28_TenMostRecentOfMerged ==
    WatchShown =>
        LET shown == watch.rendered[1].runs
        IN  /\ Len(shown) <= 10
            /\ Len(shown) = Cardinality(ShownRuns)
            /\ ShownRuns \subseteq MergedRuns
            /\ Cardinality(MergedRuns) <= 10 => ShownRuns = MergedRuns
            /\ Cardinality(MergedRuns) > 10 => Len(shown) = 10
            /\ \A i \in 1..(Len(shown) - 1) :
                 (shown[i].start_time # None /\ shown[i + 1].start_time # None) =>
                    shown[i].start_time[1] >= shown[i + 1].start_time[1]
            /\ \A m \in MergedRuns \ ShownRuns : \A r \in ShownRuns :
                 (m.start_time # None /\ r.start_time # None) =>
                    m.start_time[1] <= r.start_time[1]

\* C28 witness: three projects returned five runs each; ten are shown, and
\* runs of all three projects are among them
C28_Witness ==
    /\ WatchShown
    /\ Cardinality(MergedRuns) = 15
    /\ Len(watch.rendered[1].runs) = 10
    /\ Cardinality({r.session_name : r \in ShownRuns}) = 3

\* C29: within one refresh of `runs watch`, a client.list_runs call that
\* raises for one project aborts neither the refresh nor the loop: the
\* remaining projects are still fetched and the table rendered holds the
\* runs of every project whose fetch succeeded.
C29_RaisingFetchIsSkipped ==
    /\ (WatchDone /\ error # None) => error[1].kind # "Exception"
    /\ (WatchShown /\ \E i \in 1..Len(watch.fetches) : watch.fetches[i].outcome = "raised") =>
         /\ Len(watch.fetches) = Len(projects_to_watch(args, backend_projects))
         /\ ShownRuns \subseteq MergedRuns
         /\ Cardinality(MergedRuns) <= 10 => ShownRuns = MergedRuns

\* C29 witness: the first project raised, the second returned five runs
\* that are on display
C29_Witness ==
    /\ WatchShown
    /\ Len(watch.fetches) >= 2
    /\ watch.fetches[1].outcome = "raised"
    /\ watch.fetches[2].outcome = "ok"
    /\ Len(watch.fetches[2].runs) = 5
    /\ Range(watch.fetches[2].runs) \subseteq ShownRuns

====
